---- MODULE Spec2Model ----
(***************************************************************************)
(* TMHMM Utility Suite: the sequence filtering core (tmhmm_filter.py),     *)
(* the command-line filter tool (tmhmm_cli.py), the interactive filtering  *)
(* form (streamlit_app.py) and the FASTA merger form                       *)
(* (streamlit_merge_fasta.py).                                             *)
(*                                                                         *)
(* Strings that the code inspects character by character (FASTA text,      *)
(* TMHMM text, header lines) are sequences of one-character strings.       *)
(* An OrderedDict is a sequence of [key, value] entries with distinct      *)
(* keys.  An optional value is <<>> (None) or <<v>>.                       *)
(***************************************************************************)
EXTENDS Integers, Sequences, FiniteSets, TLC

VARIABLES
    pc,                 \* position of the running tool
    tool,               \* the entry point that ran ("none" before it ran)
    \* --- filter_records / filter_by_length_only and their three callers
    fasta_records,      \* the Fasta collection handed to the filter
    tmhmm_predictions,  \* the prediction table handed to the filter
    arg_max_predhel,    \* max_predhel as given by the caller / user
    arg_max_length,     \* max_length as given by the caller / user (optional)
    call_max_length,    \* max_length as passed to the filter (optional)
    result,             \* the FilterResult
    stdout,             \* lines printed by the CLI tool
    form_view,          \* what the filtering form shows: metrics and warning
    output_fasta,       \* the text written to the output file / download
    \* --- parse_fasta_text and format_fasta
    fasta_text,         \* a FASTA text
    parsed,             \* parse_fasta_text(fasta_text)
    formatted,          \* format_fasta of the parsed records
    reparsed,           \* parse_fasta_text(formatted)
    \* --- parse_tmhmm_text
    tm_text,            \* a TMHMM report text
    tm_lines,           \* text.splitlines()
    tm_pos,             \* index of the next line of the loop
    tm_predictions,     \* the table built so far
    \* --- the merger form
    uploaded_files,     \* the uploaded files: [name, content]
    file_pos,           \* index of the next file of the loop
    all_sequences,      \* the kept (header, sequence) pairs
    header_set,         \* the headers seen so far
    duplicate_count_total,
    file_duplicate_report, \* dict: file name -> duplicates in that file
    messages,           \* the per-file success messages
    combined_fasta      \* the text offered for download

filter_vars == <<fasta_records, tmhmm_predictions, arg_max_predhel,
                 arg_max_length, call_max_length, result, stdout, form_view,
                 output_fasta>>

fasta_vars == <<fasta_text, parsed, formatted, reparsed>>

tmhmm_vars == <<tm_text, tm_lines, tm_pos, tm_predictions>>

merge_vars == <<uploaded_files, file_pos, all_sequences, header_set,
                duplicate_count_total, file_duplicate_report, messages,
                combined_fasta>>

vars == <<pc, tool, filter_vars, fasta_vars, tmhmm_vars, merge_vars>>

(***************************************************************************)
(* Bounds of the model.                                                    *)
(***************************************************************************)
MaxRecords == 2     \* records in a Fasta collection handed to a filter
MaxSeqLen == 1      \* residues in a sequence of such a collection
MaxPredHel == 1     \* largest PredHel count in a prediction table
MaxFastaPieces == 5 \* pieces a FASTA text is made of
MaxTmhmmPieces == 4 \* pieces a TMHMM text is made of
MaxFiles == 2       \* files uploaded to the merger
MaxMergeLines == 3  \* lines in all uploaded files together

(***************************************************************************)
(* Generic helpers: optional values, dictionaries, ordered dictionaries.   *)
(***************************************************************************)
None == <<>>

Some(v) == <<v>>

\* dict.get(key): None when the key is absent.
DictGet(d, key) == IF key \in DOMAIN d THEN Some(d[key]) ELSE None

\* d[key] = value on a dict.
DictSet(d, key, value) ==
    [k \in (DOMAIN d) \cup {key} |-> IF k = key THEN value ELSE d[k]]

OdKeys(od) == [i \in 1..Len(od) |-> od[i].key]

OdValues(od) == [i \in 1..Len(od) |-> od[i].value]

OdHas(od, key) == \E i \in 1..Len(od) : od[i].key = key

OdSetPrepend(od, key, value) ==
    IF OdHas(od, key)
    THEN [i \in 1..Len(od) |->
            IF od[i].key = key THEN [key |-> key, value |-> value] ELSE od[i]]
    ELSE <<[key |-> key, value |-> value]>> \o od

\* od[key] = value on an OrderedDict: an existing key keeps its position,
\* a new key is appended.
OdSet(od, key, value) ==
    IF OdHas(od, key)
    THEN [i \in 1..Len(od) |->
            IF od[i].key = key THEN [key |-> key, value |-> value] ELSE od[i]]
    ELSE Append(od, [key |-> key, value |-> value])

\* ", ".join(parts)
RECURSIVE JoinComma(_)
JoinComma(parts) ==
    IF Len(parts) = 0 THEN ""
    ELSE IF Len(parts) = 1 THEN parts[1]
    ELSE parts[1] \o ", " \o JoinComma(Tail(parts))

\* A sequence of n residues.
Residues(n) == [i \in 1..n |-> "A"]

(***************************************************************************)
(* Character classes and the string methods the parsers use.               *)
(***************************************************************************)
\* Characters str.strip(), str.split() and the pattern classes \s, \S treat as
\* whitespace (those that occur in the model's texts).
Whitespace == {" ", "\t", "\n", "\r"}

IsSpace(c) == c \in Whitespace

Digits == {"0", "1", "2", "3", "4", "5", "6", "7", "8", "9"}

Letters ==
    {"a", "b", "c", "d", "e", "f", "g", "h", "i", "j", "k", "l", "m",
     "n", "o", "p", "q", "r", "s", "t", "u", "v", "w", "x", "y", "z",
     "A", "B", "C", "D", "E", "F", "G", "H", "I", "J", "K", "L", "M",
     "N", "O", "P", "Q", "R", "S", "T", "U", "V", "W", "X", "Y", "Z"}

\* The pattern class \w, which decides the word boundary \b.
IsWordChar(c) == c \in Letters \cup Digits \cup {"_"}

DigitValue(c) ==
    CASE c = "0" -> 0 [] c = "1" -> 1 [] c = "2" -> 2 [] c = "3" -> 3
      [] c = "4" -> 4 [] c = "5" -> 5 [] c = "6" -> 6 [] c = "7" -> 7
      [] c = "8" -> 8 [] c = "9" -> 9

\* int(digits) on a run of decimal digits.
RECURSIVE ParseInt(_)
ParseInt(digits) ==
    IF digits = <<>> THEN 0
    ELSE 10 * ParseInt(SubSeq(digits, 1, Len(digits) - 1))
         + DigitValue(digits[Len(digits)])

SetMax(S) == CHOOSE x \in S : \A y \in S : y <= x

SetMin(S) == CHOOSE x \in S : \A y \in S : x <= y

\* The m-th smallest element of a set of numbers.
Kth(S, m) == CHOOSE x \in S : Cardinality({y \in S : y <= x}) = m

\* str.splitlines(): lines end at "\n", "\r" or "\r\n"; no trailing empty line.
SplitLines(text) ==
    LET n == Len(text)
        \* positions where a line break ends ("\r\n" ends at its "\n")
        ends == {p \in 1..n :
                    \/ text[p] = "\n"
                    \/ text[p] = "\r" /\ ~(p < n /\ text[p + 1] = "\n")}
        BreakStart(p) ==
            IF text[p] = "\n" /\ p > 1 /\ text[p - 1] = "\r" THEN p - 1 ELSE p
        k == Cardinality(ends)
        LineStart(m) == IF m = 1 THEN 1 ELSE Kth(ends, m - 1) + 1
        full == [m \in 1..k |->
                    SubSeq(text, LineStart(m), BreakStart(Kth(ends, m)) - 1)]
        lastStart == IF k = 0 THEN 1 ELSE Kth(ends, k) + 1
    IN  IF lastStart <= n THEN Append(full, SubSeq(text, lastStart, n)) ELSE full

\* str.strip()
Strip(s) ==
    LET solid == {i \in 1..Len(s) : ~IsSpace(s[i])}
    IN  IF solid = {} THEN <<>> ELSE SubSeq(s, SetMin(solid), SetMax(solid))

\* str.split(): the whitespace-delimited tokens.
Split(s) ==
    LET n == Len(s)
        starts == {i \in 1..n : ~IsSpace(s[i]) /\ (i = 1 \/ IsSpace(s[i - 1]))}
        TokenEnd(a) == SetMin({j \in a..n : j = n \/ IsSpace(s[j + 1])})
    IN  [m \in 1..Cardinality(starts) |->
            SubSeq(s, Kth(starts, m), TokenEnd(Kth(starts, m)))]

\* str.replace(c, "") for every c of chars.
RemoveChars(s, chars) == SelectSeq(s, LAMBDA c : c \notin chars)

\* "".join(chunks)
RECURSIVE Concat(_)
Concat(chunks) ==
    IF chunks = <<>> THEN <<>> ELSE chunks[1] \o Concat(Tail(chunks))

\* str.startswith(">")
StartsWithGt(line) == line # <<>> /\ line[1] = ">"

(***************************************************************************)
(* tmhmm_filter.py: records and the two filters.                           *)
(***************************************************************************)
FastaRecord(identifier, header, sequence) ==
    [identifier |-> identifier, header |-> header, sequence |-> sequence]

RemovalDetail(record, reason, predhel, length) ==
    [record |-> record, reason |-> reason, predhel |-> predhel, length |-> length]

FilterResult(kept, removed, missing) ==
    [kept |-> kept, removed |-> removed, missing_predictions |-> missing]

LengthOkInclusive(length, max_length) ==
    max_length = None \/ length <= max_length[1]

\* length_ok = max_length is None or length < max_length
LengthOk(length, max_length) ==
    max_length = None \/ length < max_length[1]

\* predhel_ok = predhel is None or predhel <= max_predhel
PredhelOk(predhel, max_predhel) ==
    predhel = None \/ predhel[1] <= max_predhel

\* The text "Length≥{max_length}"; the character U+2265 is written ">=".
LengthReason(max_length) == "Length>=" \o ToString(max_length)

PredhelReason(max_predhel) == "PredHel>" \o ToString(max_predhel)

RemovalReasonLengthFirst(predhel_ok, length_ok, max_predhel, max_length) ==
    LET r1 == IF ~length_ok /\ max_length # None
              THEN <<LengthReason(max_length[1])>> ELSE <<>>
        r2 == IF ~predhel_ok THEN <<PredhelReason(max_predhel)>> ELSE <<>>
        reasons == r1 \o r2
    IN  IF reasons # <<>> THEN JoinComma(reasons) ELSE "Filtered"

\* The reason of a removal: the reasons list and its join, or "Filtered".
RemovalReason(predhel_ok, length_ok, max_predhel, max_length) ==
    LET r1 == IF ~predhel_ok THEN <<PredhelReason(max_predhel)>> ELSE <<>>
        r2 == IF ~length_ok /\ max_length # None
              THEN <<LengthReason(max_length[1])>> ELSE <<>>
        reasons == r1 \o r2
    IN  IF reasons # <<>> THEN JoinComma(reasons) ELSE "Filtered"

\* One iteration of the loop of filter_records on the entry (identifier, record).
FilterRecordsStep(acc, identifier, record, predictions, max_predhel, max_length) ==
    LET predhel == DictGet(predictions, identifier)
        length == Len(record.sequence)
        length_ok == LengthOk(length, max_length)
        predhel_ok == PredhelOk(predhel, max_predhel)
        missing == IF predhel = None
                   THEN Append(acc.missing_predictions, identifier)
                   ELSE acc.missing_predictions
    IN  IF predhel_ok /\ length_ok
        THEN FilterResult(OdSet(acc.kept, identifier, record), acc.removed, missing)
        ELSE FilterResult(
                 acc.kept,
                 OdSet(acc.removed, identifier,
                       RemovalDetail(record,
                                     RemovalReason(predhel_ok, length_ok,
                                                   max_predhel, max_length),
                                     predhel, length)),
                 missing)

RECURSIVE FilterRecordsLoop(_, _, _, _, _, _)
FilterRecordsLoop(acc, records, i, predictions, max_predhel, max_length) ==
    IF i > Len(records) THEN acc
    ELSE FilterRecordsLoop(
             FilterRecordsStep(acc, records[i].key, records[i].value,
                               predictions, max_predhel, max_length),
             records, i + 1, predictions, max_predhel, max_length)

filter_records(records, predictions, max_predhel, max_length) ==
    FilterRecordsLoop(FilterResult(<<>>, <<>>, <<>>), records, 1,
                      predictions, max_predhel, max_length)

\* One iteration of the loop of filter_by_length_only.
FilterByLengthStep(acc, identifier, record, max_length) ==
    LET length == Len(record.sequence)
    IN  IF length < max_length
        THEN FilterResult(OdSet(acc.kept, identifier, record), acc.removed, <<>>)
        ELSE FilterResult(
                 acc.kept,
                 OdSet(acc.removed, identifier,
                       RemovalDetail(record, LengthReason(max_length), None, length)),
                 <<>>)

RECURSIVE FilterByLengthLoop(_, _, _, _)
FilterByLengthLoop(acc, records, i, max_length) ==
    IF i > Len(records) THEN acc
    ELSE FilterByLengthLoop(
             FilterByLengthStep(acc, records[i].key, records[i].value, max_length),
             records, i + 1, max_length)

filter_by_length_only(records, max_length) ==
    FilterByLengthLoop(FilterResult(<<>>, <<>>, <<>>), records, 1, max_length)

(***************************************************************************)
(* tmhmm_filter.py: parse_fasta_text and format_fasta.                     *)
(***************************************************************************)
FASTA_LINE_WRAP == 60

\* The locals of parse_fasta_text; error names the exception that ended it
\* ("" while none was raised).
ParseState(records, header, seq_chunks, error) ==
    [records |-> records, header |-> header, seq_chunks |-> seq_chunks,
     error |-> error]

\* flush_record(): header.split()[0] raises IndexError on a header without a
\* token; with no header set, the buffered chunks are left in place.
FlushRecord(st) ==
    IF st.header = None THEN st
    ELSE LET header == st.header[1]
             tokens == Split(header)
         IN  IF tokens = <<>>
             THEN [st EXCEPT !.error = "IndexError"]
             ELSE LET identifier == tokens[1]
                      sequence == RemoveChars(Concat(st.seq_chunks), {" ", "\r"})
                  IN  ParseState(
                          OdSet(st.records, identifier,
                                FastaRecord(identifier, header, sequence)),
                          None, <<>>, "")

\* One iteration of the loop over text.splitlines().
ParseFastaLine(st, line) ==
    IF line = <<>> THEN st
    ELSE IF StartsWithGt(line)
         THEN LET flushed == FlushRecord(st)
              IN  IF flushed.error # "" THEN flushed
                  ELSE [flushed EXCEPT !.header = Some(Strip(Tail(line)))]
    ELSE [st EXCEPT !.seq_chunks = Append(st.seq_chunks, Strip(line))]

RECURSIVE ParseFastaLoop(_, _, _)
ParseFastaLoop(st, lines, i) ==
    IF st.error # "" THEN st
    ELSE IF i > Len(lines) THEN FlushRecord(st)
    ELSE ParseFastaLoop(ParseFastaLine(st, lines[i]), lines, i + 1)

\* parse_fasta_text(text): [error, records]; records is meaningful only when
\* error = "" (the call returned).
parse_fasta_text(text) ==
    LET st == ParseFastaLoop(ParseState(<<>>, None, <<>>, ""), SplitLines(text), 1)
    IN  [error |-> st.error, records |-> IF st.error = "" THEN st.records ELSE <<>>]

\* The lines of one sequence: seq[start : start + FASTA_LINE_WRAP] for start
\* in range(0, len(seq), FASTA_LINE_WRAP).
RECURSIVE WrapLines(_)
WrapLines(seq) ==
    IF seq = <<>> THEN <<>>
    ELSE IF Len(seq) <= FASTA_LINE_WRAP THEN <<seq>>
    ELSE <<SubSeq(seq, 1, FASTA_LINE_WRAP)>>
         \o WrapLines(SubSeq(seq, FASTA_LINE_WRAP + 1, Len(seq)))

RECURSIVE FormatLines(_)
FormatLines(records) ==
    IF records = <<>> THEN <<>>
    ELSE <<<<">">> \o records[1].header>> \o WrapLines(records[1].sequence)
         \o FormatLines(Tail(records))

\* "\n".join(lines)
RECURSIVE JoinNewline(_)
JoinNewline(lines) ==
    IF lines = <<>> THEN <<>>
    ELSE IF Len(lines) = 1 THEN lines[1]
    ELSE lines[1] \o <<"\n">> \o JoinNewline(Tail(lines))

\* format_fasta(records) on a sequence of FastaRecord.
format_fasta(records) ==
    LET lines == FormatLines(records)
    IN  JoinNewline(lines) \o (IF lines # <<>> THEN <<"\n">> ELSE <<>>)

(***************************************************************************)
(* tmhmm_filter.py: TMHMM_LINE_PATTERN and parse_tmhmm_text.               *)
(***************************************************************************)
PredHelLiteral == <<"P", "r", "e", "d", "H", "e", "l", "=">>

\* The literal "PredHel=" followed by a digit starts right after position j.
PredHelDigitsAfter(line, j) ==
    /\ j + Len(PredHelLiteral) + 1 <= Len(line)
    /\ SubSeq(line, j + 1, j + Len(PredHelLiteral)) = PredHelLiteral
    /\ line[j + Len(PredHelLiteral) + 1] \in Digits

PatternTailNoBoundary(line, j) ==
    PredHelDigitsAfter(line, j)

\* \bPredHel=(?P<count>\d+) matches right after position j >= 1: the word
\* boundary holds iff the character at j is not a word character ("P" is one).
PatternTail(line, j) ==
    /\ ~IsWordChar(line[j])
    /\ PredHelDigitsAfter(line, j)

\* The greedy run \d+ starting at position k.
RECURSIVE DigitRun(_, _)
DigitRun(line, k) ==
    IF k <= Len(line) /\ line[k] \in Digits
    THEN <<line[k]>> \o DigitRun(line, k + 1)
    ELSE <<>>

\* TMHMM_LINE_PATTERN.search(line): None, or <<[id, count]>> with the two
\* groups.  ^ anchors at the start; (?P<id>\S+) is greedy and gives characters
\* back only when nothing matches after it; .*? takes the leftmost tail.
TmhmmLineMatch(line) ==
    LET n == Len(line)
        idEnds == {i \in 1..n : (\A k \in 1..i : ~IsSpace(line[k]))
                                /\ (\E j \in i..n : PatternTail(line, j))}
    IN  IF idEnds = {} THEN None
        ELSE LET i == SetMax(idEnds)
                 j == SetMin({jj \in i..n : PatternTail(line, jj)})
             IN  Some([id |-> SubSeq(line, 1, i),
                       count |-> ParseInt(DigitRun(line, j + Len(PredHelLiteral) + 1))])

\* One iteration of the loop of parse_tmhmm_text.
ParseTmhmmLine(predictions_so_far, line) ==
    LET match == TmhmmLineMatch(line)
    IN  IF match = None THEN predictions_so_far
        ELSE DictSet(predictions_so_far, match[1].id, match[1].count)

RECURSIVE ParseTmhmmLoop(_, _, _)
ParseTmhmmLoop(acc, lines, i) ==
    IF i > Len(lines) THEN acc
    ELSE ParseTmhmmLoop(ParseTmhmmLine(acc, lines[i]), lines, i + 1)

EmptyDict == [k \in {} |-> 0]

parse_tmhmm_text(text) == ParseTmhmmLoop(EmptyDict, SplitLines(text), 1)

(***************************************************************************)
(* Inputs of the filter tools.                                             *)
(***************************************************************************)
IdentifierChars == <<"a", "b", "c", "d">>

\* Identifiers (and headers) of the collections: one-token headers.
Identifiers == {<<IdentifierChars[i]>> : i \in 1..MaxRecords}

IsInjective(f) == \A i, j \in DOMAIN f : f[i] = f[j] => i = j

\* The identifiers of a collection of n records: a, b, ... or the reverse.
IdentifierOrders(n) ==
    {[i \in 1..n |-> <<IdentifierChars[i]>>],
     [i \in 1..n |-> <<IdentifierChars[n + 1 - i]>>]}

\* Collections parse_fasta_text can return: distinct identifiers, the
\* identifier the first token of the header, sequences without whitespace.
FastaCollections ==
    UNION {
        {[i \in 1..n |->
            [key |-> ids[i],
             value |-> FastaRecord(ids[i], ids[i], Residues(lens[i]))]] :
            ids \in IdentifierOrders(n),
            lens \in [1..n -> 0..MaxSeqLen]} :
        n \in 0..MaxRecords}

\* The tables parse_tmhmm_text can return: counts are numbers >= 0.
PredictionTables ==
    UNION {[S -> 0..MaxPredHel] : S \in SUBSET Identifiers}

\* Thresholds a caller may pass, negative ones included.
PredhelArgs == -1..1

LengthArgs == -1..1

\* tmhmm_cli.py: default of --max-length.
CLI_DEFAULT_MAX_LENGTH == 300

\* streamlit_app.py: range of the "Maximum allowed PredHel" input.
FORM_PREDHEL_MIN == 0

FORM_PREDHEL_MAX == 20

\* streamlit_app.py: range of the "Maximum sequence length" input.
FORM_LENGTH_MIN == 1

FORM_LENGTH_MAX == 5000

NoResult == FilterResult(<<>>, <<>>, <<>>)

NoView == [shown |-> FALSE, total |-> 0, kept |-> 0, removed |-> 0, warning |-> None]

FilterIdle ==
    /\ fasta_records = <<>>
    /\ tmhmm_predictions = EmptyDict
    /\ arg_max_predhel = 0
    /\ arg_max_length = None
    /\ call_max_length = None
    /\ result = NoResult
    /\ stdout = <<>>
    /\ form_view = NoView
    /\ output_fasta = <<>>

FastaIdle ==
    /\ fasta_text = <<>>
    /\ parsed = [error |-> "", records |-> <<>>]
    /\ formatted = <<>>
    /\ reparsed = [error |-> "", records |-> <<>>]

TmhmmIdle ==
    /\ tm_text = <<>>
    /\ tm_lines = <<>>
    /\ tm_pos = 1
    /\ tm_predictions = EmptyDict

MergeIdle ==
    /\ uploaded_files = <<>>
    /\ file_pos = 1
    /\ all_sequences = <<>>
    /\ header_set = {}
    /\ duplicate_count_total = 0
    /\ file_duplicate_report = <<>>
    /\ messages = <<>>
    /\ combined_fasta = <<>>

(***************************************************************************)
(* The filter tools: the two library filters called directly, the CLI      *)
(* tool and the two modes of the filtering form.                           *)
(***************************************************************************)
Init ==
    /\ pc = "start"
    /\ tool = "none"
    /\ fasta_records \in FastaCollections
    /\ tmhmm_predictions \in PredictionTables
    /\ arg_max_predhel = 0
    /\ arg_max_length = None
    /\ call_max_length = None
    /\ result = NoResult
    /\ stdout = <<>>
    /\ form_view = NoView
    /\ output_fasta = <<>>
    /\ FastaIdle /\ TmhmmIdle /\ MergeIdle

\* A direct call of filter_records with any thresholds.
CallFilterRecords ==
    /\ pc = "start"
    /\ \E max_predhel \in PredhelArgs,
          max_length \in {None} \cup {Some(n) : n \in LengthArgs} :
        /\ arg_max_predhel' = max_predhel
        /\ arg_max_length' = max_length
        /\ call_max_length' = max_length
        /\ result' = filter_records(fasta_records, tmhmm_predictions,
                                    max_predhel, max_length)
    /\ tool' = "filter_records"
    /\ pc' = "done"
    /\ UNCHANGED <<fasta_records, tmhmm_predictions, stdout, form_view,
                   output_fasta, fasta_vars, tmhmm_vars, merge_vars>>

\* A direct call of filter_by_length_only with any threshold.
CallFilterByLengthOnly ==
    /\ pc = "start"
    /\ \E max_length \in LengthArgs :
        /\ arg_max_length' = Some(max_length)
        /\ call_max_length' = Some(max_length)
        /\ result' = filter_by_length_only(fasta_records, max_length)
    /\ tool' = "filter_by_length_only"
    /\ pc' = "done"
    /\ UNCHANGED <<fasta_records, tmhmm_predictions, arg_max_predhel, stdout,
                   form_view, output_fasta, fasta_vars, tmhmm_vars, merge_vars>>

NormalizeMaxLengthNoSignCheck(max_length) ==
    IF max_length # 0 THEN Some(max_length) ELSE None

\* args.max_length if args.max_length and args.max_length > 0 else None
NormalizeMaxLength(max_length) ==
    IF max_length # 0 /\ max_length > 0 THEN Some(max_length) ELSE None

\* The lines main() prints.
CliReport(total, res, max_length) ==
    <<"Total FASTA sequences: " \o ToString(total),
      "Sequences removed: " \o ToString(Len(res.removed)),
      "Sequences kept: " \o ToString(Len(res.kept)),
      "Output written to: filtered_no_transmembrane.fasta">>
    \o (IF max_length # None
        THEN <<"Length filter applied: keep length < "
               \o ToString(max_length[1]) \o " amino acids.">>
        ELSE <<"Length filter disabled.">>)
    \o (IF res.missing_predictions # <<>>
        THEN <<"Warning: " \o ToString(Len(res.missing_predictions))
               \o " sequences lacked TMHMM predictions and were kept.">>
        ELSE <<>>)

\* tmhmm_cli.py main(), from the loaded inputs on.
CliMain ==
    /\ pc = "start"
    /\ \E max_predhel \in PredhelArgs,
          args_max_length \in LengthArgs \cup {CLI_DEFAULT_MAX_LENGTH} :
        LET max_length == NormalizeMaxLength(args_max_length)
            res == filter_records(fasta_records, tmhmm_predictions,
                                  max_predhel, max_length)
        IN  /\ arg_max_predhel' = max_predhel
            /\ arg_max_length' = Some(args_max_length)
            /\ call_max_length' = max_length
            /\ result' = res
            /\ output_fasta' = format_fasta(OdValues(res.kept))
            /\ stdout' = CliReport(Len(fasta_records), res, max_length)
    /\ tool' = "cli"
    /\ pc' = "done"
    /\ UNCHANGED <<fasta_records, tmhmm_predictions, form_view,
                   fasta_vars, tmhmm_vars, merge_vars>>

\* The three counters of the form and its warning about missing predictions.
FormView(total, res) ==
    [shown |-> TRUE, total |-> total, kept |-> Len(res.kept),
     removed |-> Len(res.removed),
     warning |-> IF res.missing_predictions # <<>>
                 THEN Some(Len(res.missing_predictions)) ELSE None]

\* streamlit_app.py, mode "PredHel filter", with both files uploaded and parsed.
FormPredHel ==
    /\ pc = "start"
    /\ \E max_predhel \in PredhelArgs \cup {FORM_PREDHEL_MAX} :
        /\ FORM_PREDHEL_MIN <= max_predhel
        /\ max_predhel <= FORM_PREDHEL_MAX
        /\ LET res == filter_records(fasta_records, tmhmm_predictions,
                                     max_predhel, None)
           IN  /\ arg_max_predhel' = max_predhel
               /\ arg_max_length' = None
               /\ call_max_length' = None
               /\ result' = res
               /\ form_view' = FormView(Len(fasta_records), res)
               /\ output_fasta' = format_fasta(OdValues(res.kept))
    /\ tool' = "predhel_form"
    /\ pc' = "done"
    /\ UNCHANGED <<fasta_records, tmhmm_predictions, stdout,
                   fasta_vars, tmhmm_vars, merge_vars>>

\* streamlit_app.py, mode "Length filter", with the file uploaded and parsed.
FormLength ==
    /\ pc = "start"
    /\ \E max_length \in LengthArgs \cup {FORM_LENGTH_MAX} :
        /\ FORM_LENGTH_MIN <= max_length
        /\ max_length <= FORM_LENGTH_MAX
        /\ LET res == filter_by_length_only(fasta_records, max_length)
           IN  /\ arg_max_length' = Some(max_length)
               /\ call_max_length' = Some(max_length)
               /\ result' = res
               /\ form_view' = [FormView(Len(fasta_records), res)
                                   EXCEPT !.warning = None]
               /\ output_fasta' = format_fasta(OdValues(res.kept))
    /\ tool' = "length_form"
    /\ pc' = "done"
    /\ UNCHANGED <<fasta_records, tmhmm_predictions, arg_max_predhel, stdout,
                   fasta_vars, tmhmm_vars, merge_vars>>

Next ==
    \/ CallFilterRecords
    \/ CallFilterByLengthOnly
    \/ CliMain
    \/ FormPredHel
    \/ FormLength

Spec == Init /\ [][Next]_vars

(***************************************************************************)
(* parse_fasta_text and format_fasta applied to FASTA texts: a text is     *)
(* parsed, the records are formatted, and the formatted text is parsed     *)
(* again.                                                                  *)
(***************************************************************************)
\* The pieces a text is made of: single characters and one run of residues
\* as long as a wrapped line.
FastaPieces ==
    {<<">">>, <<"A">>, <<" ">>, <<"\n">>, Residues(FASTA_LINE_WRAP)}

FastaTexts ==
    UNION {{Concat(ps) : ps \in [1..n -> FastaPieces]} : n \in 0..MaxFastaPieces}

NotParsed == [error |-> "", records |-> <<>>]

InitFasta ==
    /\ pc = "start"
    /\ tool = "none"
    /\ fasta_text \in FastaTexts
    /\ parsed = NotParsed
    /\ formatted = <<>>
    /\ reparsed = NotParsed
    /\ FilterIdle /\ TmhmmIdle /\ MergeIdle

ParseFasta ==
    /\ pc = "start"
    /\ parsed' = parse_fasta_text(fasta_text)
    /\ tool' = "parse_fasta_text"
    /\ pc' = "parsed"
    /\ UNCHANGED <<fasta_text, formatted, reparsed,
                   filter_vars, tmhmm_vars, merge_vars>>

\* Reached only when parse_fasta_text returned.
FormatFasta ==
    /\ pc = "parsed"
    /\ parsed.error = ""
    /\ formatted' = format_fasta(OdValues(parsed.records))
    /\ tool' = "format_fasta"
    /\ pc' = "formatted"
    /\ UNCHANGED <<fasta_text, parsed, reparsed,
                   filter_vars, tmhmm_vars, merge_vars>>

ReparseFasta ==
    /\ pc = "formatted"
    /\ reparsed' = parse_fasta_text(formatted)
    /\ tool' = "parse_fasta_text"
    /\ pc' = "reparsed"
    /\ UNCHANGED <<fasta_text, parsed, formatted,
                   filter_vars, tmhmm_vars, merge_vars>>

NextFasta ==
    \/ ParseFasta
    \/ FormatFasta
    \/ ReparseFasta

SpecFasta == InitFasta /\ [][NextFasta]_vars

(***************************************************************************)
(* parse_tmhmm_text, one line of the report per step.                      *)
(***************************************************************************)
\* The pieces a report is made of: a word character, a blank, the literal, a
\* digit, a line break, and two whole fields: " PredHel=1" and "xPredHel=4".
TmhmmPieces ==
    {<<"x">>, <<" ">>, PredHelLiteral, <<"4">>, <<"\n">>,
     <<" ">> \o PredHelLiteral \o <<"1">>,
     <<"x">> \o PredHelLiteral \o <<"4">>}

TmhmmTexts ==
    UNION {{Concat(ps) : ps \in [1..n -> TmhmmPieces]} : n \in 0..MaxTmhmmPieces}

InitTmhmm ==
    /\ pc = "start"
    /\ tool = "none"
    /\ tm_text \in TmhmmTexts
    /\ tm_lines = <<>>
    /\ tm_pos = 1
    /\ tm_predictions = EmptyDict
    /\ FilterIdle /\ FastaIdle /\ MergeIdle

\* predictions = {}; text.splitlines()
TmhmmBegin ==
    /\ pc = "start"
    /\ tm_lines' = SplitLines(tm_text)
    /\ tm_pos' = 1
    /\ tm_predictions' = EmptyDict
    /\ tool' = "parse_tmhmm_text"
    /\ pc' = "loop"
    /\ UNCHANGED <<tm_text, filter_vars, fasta_vars, merge_vars>>

\* The body of the loop on the next line.
TmhmmLine ==
    /\ pc = "loop"
    /\ tm_pos <= Len(tm_lines)
    /\ tm_predictions' = ParseTmhmmLine(tm_predictions, tm_lines[tm_pos])
    /\ tm_pos' = tm_pos + 1
    /\ UNCHANGED <<pc, tool, tm_text, tm_lines,
                   filter_vars, fasta_vars, merge_vars>>

\* return predictions
TmhmmReturn ==
    /\ pc = "loop"
    /\ tm_pos > Len(tm_lines)
    /\ pc' = "done"
    /\ UNCHANGED <<tool, tmhmm_vars, filter_vars, fasta_vars, merge_vars>>

NextTmhmm ==
    \/ TmhmmBegin
    \/ TmhmmLine
    \/ TmhmmReturn

SpecTmhmm == InitTmhmm /\ [][NextTmhmm]_vars

(***************************************************************************)
(* streamlit_merge_fasta.py: read_fasta and the merge loop, one uploaded   *)
(* file per step.  A (header, sequence) pair is <<header, seq>>.           *)
(***************************************************************************)
\* The locals of read_fasta.
ReadState(sequences, header, seq) ==
    [sequences |-> sequences, header |-> header, seq |-> seq]

\* One iteration of the loop of read_fasta; "if header" is header # "".
ReadFastaLine(st, line) ==
    IF StartsWithGt(line)
    THEN ReadState(IF st.header # <<>>
                   THEN Append(st.sequences, <<st.header, st.seq>>)
                   ELSE st.sequences,
                   line, <<>>)
    ELSE ReadState(st.sequences, st.header, st.seq \o Strip(line))

RECURSIVE ReadFastaLoop(_, _, _)
ReadFastaLoop(st, lines, i) ==
    IF i > Len(lines)
    THEN (IF st.header # <<>>
          THEN Append(st.sequences, <<st.header, st.seq>>)
          ELSE st.sequences)
    ELSE ReadFastaLoop(ReadFastaLine(st, lines[i]), lines, i + 1)

\* read_fasta(file) on the decoded content of the file.
read_fasta(content) ==
    ReadFastaLoop(ReadState(<<>>, <<>>, <<>>), SplitLines(content), 1)

\* The variables the inner loop updates.
MergeState(seqs_kept, headers, total, in_file) ==
    [all_sequences |-> seqs_kept, header_set |-> headers,
     duplicate_count_total |-> total, duplicates_in_file |-> in_file]

MergeEntryKeepLast(st, header, seq) ==
    IF header \in st.header_set
    THEN MergeState(
             [i \in 1..Len(st.all_sequences) |->
                 IF st.all_sequences[i][1] = header
                 THEN <<header, seq>> ELSE st.all_sequences[i]],
             st.header_set,
             st.duplicate_count_total + 1, st.duplicates_in_file + 1)
    ELSE MergeState(Append(st.all_sequences, <<header, seq>>),
                    st.header_set \cup {header},
                    st.duplicate_count_total, st.duplicates_in_file)

\* One iteration of the inner loop: for header, seq in seqs.
MergeEntry(st, header, seq) ==
    IF header \in st.header_set
    THEN MergeState(st.all_sequences, st.header_set,
                    st.duplicate_count_total + 1, st.duplicates_in_file + 1)
    ELSE MergeState(Append(st.all_sequences, <<header, seq>>),
                    st.header_set \cup {header},
                    st.duplicate_count_total, st.duplicates_in_file)

RECURSIVE MergeEntries(_, _, _)
MergeEntries(st, seqs, i) ==
    IF i > Len(seqs) THEN st
    ELSE MergeEntries(MergeEntry(st, seqs[i][1], seqs[i][2]), seqs, i + 1)

\* combined_fasta: header, newline, sequence, newline for every kept pair.
RECURSIVE CombinedFasta(_)
CombinedFasta(seqs) ==
    IF seqs = <<>> THEN <<>>
    ELSE seqs[1][1] \o <<"\n">> \o seqs[1][2] \o <<"\n">> \o CombinedFasta(Tail(seqs))

MergeLinePool == {<<">", "a">>, <<">", "b">>, <<"A">>}

FileNames == {"f1.fasta", "f2.fasta"}

UploadedFile(name, content) == [name |-> name, content |-> content]

\* The ways to cut n lines into f consecutive files (files may be empty).
Cuts(n, f) ==
    {b \in [0..f -> 0..n] :
        /\ b[0] = 0
        /\ b[f] = n
        /\ \A i \in 1..f : b[i - 1] <= b[i]}

\* The uploads: up to MaxFiles files holding up to MaxMergeLines lines
\* together, every file under any of the names.
Uploads ==
    {<<>>} \cup
    UNION {UNION {
        {[i \in 1..f |->
            UploadedFile(names[i],
                         JoinNewline(SubSeq(ls, b[i - 1] + 1, b[i])))] :
            ls \in [1..n -> MergeLinePool],
            b \in Cuts(n, f),
            names \in [1..f -> FileNames]} :
        n \in 0..MaxMergeLines} : f \in 1..MaxFiles}

InitMerge ==
    /\ pc = "start"
    /\ tool = "none"
    /\ uploaded_files \in Uploads
    /\ file_pos = 1
    /\ all_sequences = <<>>
    /\ header_set = {}
    /\ duplicate_count_total = 0
    /\ file_duplicate_report = <<>>
    /\ messages = <<>>
    /\ combined_fasta = <<>>
    /\ FilterIdle /\ FastaIdle /\ TmhmmIdle

\* if uploaded_files: ... else: st.info(...)
MergeNoFiles ==
    /\ pc = "start"
    /\ uploaded_files = <<>>
    /\ tool' = "merger"
    /\ pc' = "done"
    /\ UNCHANGED <<merge_vars, filter_vars, fasta_vars, tmhmm_vars>>

\* The initialisations before the loop over the files.
MergeBegin ==
    /\ pc = "start"
    /\ uploaded_files # <<>>
    /\ all_sequences' = <<>>
    /\ header_set' = {}
    /\ duplicate_count_total' = 0
    /\ file_duplicate_report' = <<>>
    /\ file_pos' = 1
    /\ tool' = "merger"
    /\ pc' = "files"
    /\ UNCHANGED <<uploaded_files, messages, combined_fasta,
                   filter_vars, fasta_vars, tmhmm_vars>>

\* The body of the loop over the files, on the next file.
MergeFile ==
    /\ pc = "files"
    /\ file_pos <= Len(uploaded_files)
    /\ LET file == uploaded_files[file_pos]
           seqs == read_fasta(file.content)
           st == MergeEntries(
                     MergeState(all_sequences, header_set,
                                duplicate_count_total, 0),
                     seqs, 1)
       IN  /\ all_sequences' = st.all_sequences
           /\ header_set' = st.header_set
           /\ duplicate_count_total' = st.duplicate_count_total
           /\ file_duplicate_report' =
                  OdSet(file_duplicate_report, file.name, st.duplicates_in_file)
           /\ messages' = Append(messages,
                  [name |-> file.name, loaded |-> Len(seqs),
                   duplicates |-> st.duplicates_in_file])
    /\ file_pos' = file_pos + 1
    /\ UNCHANGED <<pc, tool, uploaded_files, combined_fasta,
                   filter_vars, fasta_vars, tmhmm_vars>>

\* After the loop: the totals, the per-file report and the download.
MergeFinish ==
    /\ pc = "files"
    /\ file_pos > Len(uploaded_files)
    /\ combined_fasta' = CombinedFasta(all_sequences)
    /\ pc' = "done"
    /\ UNCHANGED <<tool, uploaded_files, file_pos, all_sequences, header_set,
                   duplicate_count_total, file_duplicate_report, messages,
                   filter_vars, fasta_vars, tmhmm_vars>>

NextMerge ==
    \/ MergeNoFiles
    \/ MergeBegin
    \/ MergeFile
    \/ MergeFinish

SpecMerge == InitMerge /\ [][NextMerge]_vars

(***************************************************************************)
(* Properties of the filters and of the tools that call them (Spec).       *)
(***************************************************************************)
RanFilterRecords ==
    pc = "done" /\ tool \in {"filter_records", "cli", "predhel_form"}

RanLengthOnly ==
    pc = "done" /\ tool \in {"filter_by_length_only", "length_form"}

InKept(id) == \E i \in 1..Len(result.kept) : result.kept[i].key = id

InRemoved(id) == \E i \in 1..Len(result.removed) : result.removed[i].key = id

InMissing(id) ==
    \E i \in 1..Len(result.missing_predictions) : result.missing_predictions[i] = id

HasPrediction(id) == id \in DOMAIN tmhmm_predictions

\* The two checks of a record, stated on the inputs of the call.
PassesPredHel(id) ==
    ~HasPrediction(id) \/ tmhmm_predictions[id] <= arg_max_predhel

PassesLength(rec) ==
    call_max_length = None \/ Len(rec.sequence) < call_max_length[1]

\* C1: filter_records keeps a record iff (it has no prediction or its PredHel
\* <= max_predhel) and (max_length is absent or its length < max_length), and
\* removes it otherwise; an identifier without prediction is listed in
\* missing_predictions; filter_by_length_only keeps a record iff its length
\* < max_length.
C1_KeptIffChecksPass ==
    /\ RanFilterRecords =>
        \A i \in 1..Len(fasta_records) :
            LET id == fasta_records[i].key
                rec == fasta_records[i].value
                passes == PassesPredHel(id) /\ PassesLength(rec)
            IN  /\ InKept(id) <=> passes
                /\ InRemoved(id) <=> ~passes
                /\ ~HasPrediction(id) => InMissing(id)
    /\ RanLengthOnly =>
        \A i \in 1..Len(fasta_records) :
            LET id == fasta_records[i].key
                rec == fasta_records[i].value
            IN  /\ InKept(id) <=> Len(rec.sequence) < call_max_length[1]
                /\ InRemoved(id) <=> ~(Len(rec.sequence) < call_max_length[1])

\* A call where the boundaries meet: a record with PredHel = max_predhel and
\* length = max_length - 1 is kept, a record without prediction and with
\* length = max_length is removed and listed as missing.
C1_Witness ==
    /\ pc = "done" /\ tool = "filter_records"
    /\ call_max_length # None
    /\ \E i, j \in 1..Len(fasta_records) :
        LET a == fasta_records[i]
            b == fasta_records[j]
        IN  /\ HasPrediction(a.key)
            /\ tmhmm_predictions[a.key] = arg_max_predhel
            /\ Len(a.value.sequence) = call_max_length[1] - 1
            /\ InKept(a.key)
            /\ ~HasPrediction(b.key)
            /\ Len(b.value.sequence) = call_max_length[1]
            /\ InRemoved(b.key)
            /\ InMissing(b.key)

\* The position of an identifier in the input collection.
InputPos(id) == CHOOSE p \in 1..Len(fasta_records) : fasta_records[p].key = id

InInputOrder(keys) ==
    \A i, j \in 1..Len(keys) : i < j => InputPos(keys[i]) < InputPos(keys[j])

\* C2: after either filter, kept and removed partition the input (no
\* identifier in both, every input identifier in exactly one, the two sizes
\* add up to the number of input records, which is what the CLI and the form
\* report), and each lists its identifiers in input order.
C2_PartitionInInputOrder ==
    (RanFilterRecords \/ RanLengthOnly) =>
        /\ \A i \in 1..Len(fasta_records) :
               InKept(fasta_records[i].key) # InRemoved(fasta_records[i].key)
        /\ \A i \in 1..Len(result.kept) :
               \E p \in 1..Len(fasta_records) :
                   fasta_records[p] = result.kept[i]
        /\ \A i \in 1..Len(result.removed) :
               \E p \in 1..Len(fasta_records) :
                   /\ fasta_records[p].key = result.removed[i].key
                   /\ fasta_records[p].value = result.removed[i].value.record
        /\ Len(result.kept) + Len(result.removed) = Len(fasta_records)
        /\ IsInjective(OdKeys(result.kept))
        /\ IsInjective(OdKeys(result.removed))
        /\ InInputOrder(OdKeys(result.kept))
        /\ InInputOrder(OdKeys(result.removed))
        /\ tool = "cli" =>
               /\ stdout[1] = "Total FASTA sequences: "
                              \o ToString(Len(result.kept) + Len(result.removed))
               /\ stdout[2] = "Sequences removed: " \o ToString(Len(result.removed))
               /\ stdout[3] = "Sequences kept: " \o ToString(Len(result.kept))
        /\ tool \in {"predhel_form", "length_form"} =>
               /\ form_view.total = form_view.kept + form_view.removed
               /\ form_view.kept = Len(result.kept)
               /\ form_view.removed = Len(result.removed)

\* Two records given as b, a are both removed, in that order.
C2_Witness ==
    /\ pc = "done" /\ tool = "filter_by_length_only"
    /\ OdKeys(fasta_records) = <<<<"b">>, <<"a">>>>
    /\ OdKeys(result.removed) = <<<<"b">>, <<"a">>>>
    /\ result.kept = <<>>

\* C3: the reason of a record removed by filter_records is "PredHel>{max_predhel}"
\* when only the PredHel check failed, "Length>={max_length}" (written with
\* U+2265 in the code) when only the length check failed, the two joined by
\* ", " with PredHel first when both failed, and never "Filtered"; predhel and
\* length are the record's prediction and sequence length.
C3_RemovalReasons ==
    RanFilterRecords =>
        \A i \in 1..Len(result.removed) :
            LET id == result.removed[i].key
                d == result.removed[i].value
                predhelFailed == ~PassesPredHel(id)
                lengthFailed == ~PassesLength(d.record)
                predhelText == "PredHel>" \o ToString(arg_max_predhel)
                lengthText == "Length>=" \o ToString(call_max_length[1])
            IN  /\ predhelFailed /\ ~lengthFailed => d.reason = predhelText
                /\ ~predhelFailed /\ lengthFailed => d.reason = lengthText
                /\ predhelFailed /\ lengthFailed =>
                       d.reason = predhelText \o ", " \o lengthText
                /\ d.reason # "Filtered"
                /\ d.predhel = (IF HasPrediction(id)
                                THEN <<tmhmm_predictions[id]>> ELSE <<>>)
                /\ d.length = Len(d.record.sequence)

\* A record fails both checks under a negative PredHel threshold and
\* max_length = 0.
C3_Witness ==
    /\ pc = "done" /\ tool = "filter_records"
    /\ arg_max_predhel = -1
    /\ call_max_length = <<0>>
    /\ \E i \in 1..Len(result.removed) :
        /\ HasPrediction(result.removed[i].key)
        /\ result.removed[i].value.reason = "PredHel>-1, Length>=0"

\* C4: after the CLI tool or the PredHel form, every identifier of
\* missing_predictions is in kept and not in removed.
C4_MissingWereKept ==
    (pc = "done" /\ tool \in {"cli", "predhel_form"}) =>
        \A i \in 1..Len(result.missing_predictions) :
            /\ InKept(result.missing_predictions[i])
            /\ ~InRemoved(result.missing_predictions[i])

\* C8: in the CLI tool a --max-length <= 0 calls filter_records with
\* max_length absent, so a record is removed only when its PredHel check
\* fails, and prints "Length filter disabled."; a value N > 0 calls it with
\* max_length = N and prints "Length filter applied: keep length < N amino
\* acids.".
C8_CliMaxLength ==
    (pc = "done" /\ tool = "cli") =>
        LET n == arg_max_length[1]
        IN  /\ n <= 0 =>
                /\ call_max_length = None
                /\ \A i \in 1..Len(fasta_records) :
                       InKept(fasta_records[i].key)
                           <=> PassesPredHel(fasta_records[i].key)
                /\ stdout[5] = "Length filter disabled."
            /\ n > 0 =>
                /\ call_max_length = <<n>>
                /\ stdout[5] = "Length filter applied: keep length < "
                               \o ToString(n) \o " amino acids."

\* The CLI tool ran with --max-length -1 and kept a record with residues.
C8_Witness ==
    /\ pc = "done" /\ tool = "cli"
    /\ arg_max_length = <<-1>>
    /\ \E i \in 1..Len(result.kept) : Len(result.kept[i].value.sequence) > 0

(***************************************************************************)
(* Properties of parse_fasta_text and format_fasta (SpecFasta).            *)
(***************************************************************************)
\* C6: a collection parsed from a text, formatted and parsed again is the
\* same collection: same identifiers in the same order, same headers, same
\* sequences.
C6_RoundTrip ==
    pc = "reparsed" => (reparsed.error = "" /\ reparsed.records = parsed.records)

\* C7: parse_fasta_text raises no error on any text.
C7_ParseNeverRaises ==
    pc # "start" => parsed.error = ""

(***************************************************************************)
(* Properties of parse_tmhmm_text (SpecTmhmm).                             *)
(***************************************************************************)
\* The characters from the start of the line up to the first whitespace.
LeadingToken(line) ==
    LET blanks == {i \in 1..Len(line) : IsSpace(line[i])}
    IN  IF blanks = {} THEN line ELSE SubSeq(line, 1, SetMin(blanks) - 1)

HasPredHelSubstring(line) ==
    \E j \in 0..Len(line) :
        /\ j + 8 <= Len(line)
        /\ SubSeq(line, j + 1, j + 8) = <<"P", "r", "e", "d", "H", "e", "l", "=">>

\* The positions j after the leading token such that "PredHel=" and at least
\* one digit start right after j.
NumbersAfterToken(line) ==
    {j \in Len(LeadingToken(line))..Len(line) :
        /\ j + 9 <= Len(line)
        /\ SubSeq(line, j + 1, j + 8) = <<"P", "r", "e", "d", "H", "e", "l", "=">>
        /\ line[j + 9] \in Digits}

\* The number written by the digits that follow the "PredHel=" after j.
NumberAfter(line, j) ==
    LET last == SetMax({k \in (j + 9)..Len(line) :
                           \A m \in (j + 9)..k : line[m] \in Digits})
        Value[k \in (j + 8)..last] ==
            IF k = j + 8 THEN 0 ELSE 10 * Value[k - 1] + DigitValue(line[k])
    IN  Value[last]

\* Those not directly preceded by a letter, a digit or an underscore.
BoundedNumbersAfterToken(line) ==
    {j \in NumbersAfterToken(line) : ~IsWordChar(line[j])}

ProcessesLine == pc = "loop" /\ tm_pos' = tm_pos + 1

\* C5 as stated: processing a line maps its leading token to n whenever
\* "PredHel=" followed by the digits of n occurs after the token, whatever
\* precedes "PredHel="; a line without "PredHel=" adds no entry.
C5_AnyPrecedingCharacter ==
    [][ProcessesLine =>
        LET line == tm_lines[tm_pos]
            token == LeadingToken(line)
            found == NumbersAfterToken(line)
        IN  /\ (token # <<>> /\ found # {}) =>
                /\ token \in DOMAIN tm_predictions'
                /\ \E j \in found : tm_predictions'[token] = NumberAfter(line, j)
            /\ ~HasPredHelSubstring(line) => tm_predictions' = tm_predictions
       ]_vars

\* C5 amended: processing a line maps its leading token to the number of the
\* first "PredHel=<digits>" after the token that is not directly preceded by
\* a letter, digit or underscore; a line without "PredHel=" adds no entry.
C5_AfterWordBoundary ==
    [][ProcessesLine =>
        LET line == tm_lines[tm_pos]
            token == LeadingToken(line)
            found == BoundedNumbersAfterToken(line)
        IN  /\ (token # <<>> /\ found # {}) =>
                /\ token \in DOMAIN tm_predictions'
                /\ tm_predictions'[token] = NumberAfter(line, SetMin(found))
            /\ ~HasPredHelSubstring(line) => tm_predictions' = tm_predictions
       ]_vars

\* The first line was processed; it holds "xPredHel=4" and then " PredHel=1"
\* after its token, and the table maps the token to 1.
C5_Witness ==
    /\ pc = "loop" /\ tm_pos = 2
    /\ LET line == tm_lines[1]
           token == LeadingToken(line)
       IN  /\ token # <<>>
           /\ Cardinality(NumbersAfterToken(line)) = 2
           /\ Cardinality(BoundedNumbersAfterToken(line)) = 1
           /\ token \in DOMAIN tm_predictions
           /\ tm_predictions[token] = 1

(***************************************************************************)
(* Properties of the merger (SpecMerge).                                   *)
(***************************************************************************)
\* The (header, sequence) pairs read from the files processed so far.
RECURSIVE EntriesOfFiles(_)
EntriesOfFiles(n) ==
    IF n = 0 THEN <<>>
    ELSE EntriesOfFiles(n - 1) \o read_fasta(uploaded_files[n].content)

EntriesRead == EntriesOfFiles(file_pos - 1)

\* The indexes of the entries whose header line occurs at no earlier entry.
FirstOccurrences(entries) ==
    {i \in 1..Len(entries) : \A j \in 1..(i - 1) : entries[j][1] # entries[i][1]}

\* C9: the kept list holds, for each distinct header line read so far, the
\* entry of its first occurrence and nothing else, in order of first
\* occurrence: an entry is discarded iff an equal header line came earlier.
C9_KeptAreFirstOccurrences ==
    pc \in {"files", "done"} =>
        LET entries == EntriesRead
            first == FirstOccurrences(entries)
        IN  /\ Len(all_sequences) = Cardinality(first)
            /\ \A m \in 1..Len(all_sequences) :
                   all_sequences[m] = entries[Kth(first, m)]
            /\ \A m, k \in 1..Len(all_sequences) :
                   all_sequences[m][1] = all_sequences[k][1] => m = k
            /\ {all_sequences[m][1] : m \in 1..Len(all_sequences)}
                   = {entries[i][1] : i \in 1..Len(entries)}

\* Two files were merged; the second repeats a header of the first with
\* another sequence, and the kept entry has the sequence of the first.
C9_Witness ==
    /\ pc = "done"
    /\ Len(uploaded_files) = 2
    /\ messages[2].duplicates = 1
    /\ LET one == read_fasta(uploaded_files[1].content)
           two == read_fasta(uploaded_files[2].content)
       IN  \E i \in 1..Len(one), j \in 1..Len(two) :
               /\ one[i][1] = two[j][1]
               /\ one[i][2] # two[j][2]
               /\ \E m \in 1..Len(all_sequences) : all_sequences[m] = one[i]

RECURSIVE SumOfCounts(_)
SumOfCounts(report) ==
    IF report = <<>> THEN 0 ELSE report[1].value + SumOfCounts(Tail(report))

\* C10: after the merge the per-file report holds, for each uploaded file,
\* the number of duplicate headers found in that file, so its counts sum to
\* the global duplicate count; and kept count + global duplicate count is the
\* number of entries read.
C10_ReportPerFile ==
    (pc = "done" /\ uploaded_files # <<>>) =>
        /\ \A i \in 1..Len(uploaded_files) :
               \E r \in 1..Len(file_duplicate_report) :
                   /\ file_duplicate_report[r].key = uploaded_files[i].name
                   /\ file_duplicate_report[r].value = messages[i].duplicates
        /\ SumOfCounts(file_duplicate_report) = duplicate_count_total
        /\ Len(all_sequences) + duplicate_count_total = Len(EntriesRead)

====
